---- MODULE Spec2Model ----
(***************************************************************************)
(* Model of decentralized/dynamics.py: the DynamicalModel base class with  *)
(* its process-wide id counter, the concrete single-agent models, and the  *)
(* MultiDynamicalModel composite with partition and split.                 *)
(*                                                                         *)
(* Objects live in heaps: `models` holds the leaf models in construction   *)
(* order and a model is referred to by its index there (its identity);     *)
(* `multi` holds the composite the caller currently has, as a sequence of  *)
(* at most one record.  `ret` is what the last operation was called with   *)
(* and what it returned or raised.                                         *)
(***************************************************************************)
EXTENDS Integers, Sequences, FiniteSets

VARIABLES
    nextId,      \* DynamicalModel._id, the class attribute
    models,      \* the leaf models constructed so far
    multi,       \* <<>> or <<the caller's MultiDynamicalModel>>
    sinceReset,  \* history: the leaf constructions since the counter was last 0
    wasReset,    \* history: _reset_ids has been called
    ret          \* the last operation, its arguments and its outcome

vars == <<nextId, models, multi, sinceReset, wasReset, ret>>

(***************************************************************************)
(* Bounds of the model.                                                    *)
(***************************************************************************)
MaxModels == 2
MaxGraph == 2

\* Timesteps a model is constructed with: 0.1 s and 0.2 s, in hundredths.
DtValues == {10, 20}

\* The optional id argument: <<>> when the caller passes none, <<k>> for id=k.
NoId == <<>>
IdArgs == {NoId, <<0>>, <<1>>}

(***************************************************************************)
(* The concrete classes.  UnicycleDynamics4dSymbolic defines no f, so it   *)
(* stays abstract and has no instances.                                    *)
(***************************************************************************)
Classes == {"DoubleIntDynamics4D", "CarDynamics3D", "UnicycleDynamics4D", "BikeDynamics5D"}

\* n_x each class passes to DynamicalModel.__init__
ClassNx(cls) ==
    CASE cls = "DoubleIntDynamics4D" -> 4
      [] cls = "CarDynamics3D" -> 3
      [] cls = "UnicycleDynamics4D" -> 4
      [] cls = "BikeDynamics5D" -> 5

\* n_u each class passes to DynamicalModel.__init__
ClassNu(cls) == 2

\* What a class constructor forwards of *args/**kwargs to the base constructor:
\* BikeDynamics5D calls super().__init__(5, 2, dt) and drops them.
ForwardedId(cls, idarg) ==
    IF cls = "BikeDynamics5D" THEN NoId ELSE idarg

\* Python's `not id`: true of None and of 0
NotId(idarg) == idarg = NoId \/ idarg[1] = 0

\* Mutation of the counter update: the counter is never advanced.
CounterStuck(counter, idarg) == counter

\* DynamicalModel.__init__, the class attribute after the call
CounterAfter(counter, idarg) ==
    IF NotId(idarg) THEN counter + 1 ELSE counter

\* DynamicalModel.__init__, the id the instance receives
AssignedId(counter, idarg) ==
    IF NotId(idarg) THEN counter ELSE idarg[1]

\* DynamicalModel.__init__: the instance's attributes
BaseInit(counter, n_x, n_u, dt, idarg) ==
    [n_x |-> n_x, n_u |-> n_u, dt |-> dt, id |-> AssignedId(counter, idarg)]

\* A leaf model as constructed by cls(dt, id) with the counter at `counter`
NewLeaf(counter, cls, dt, idarg) ==
    LET base == BaseInit(counter, ClassNx(cls), ClassNu(cls), dt, ForwardedId(cls, idarg))
    IN  [cls |-> cls, n_x |-> base.n_x, n_u |-> base.n_u, dt |-> base.dt, id |-> base.id]

(***************************************************************************)
(* MultiDynamicalModel                                                     *)
(***************************************************************************)
RECURSIVE Sum(_)
\* Python's sum over a list
Sum(s) == IF s = <<>> THEN 0 ELSE s[1] + Sum(Tail(s))

\* self.x_dims = [submodel.n_x for submodel in submodels]
XDims(heap, submodels) == [i \in 1..Len(submodels) |-> heap[submodels[i]].n_x]

\* self.u_dims = [submodel.n_u for submodel in submodels]
UDims(heap, submodels) == [i \in 1..Len(submodels) |-> heap[submodels[i]].n_u]

\* self.ids = [submodel.id for submodel in submodels]
SubIds(heap, submodels) == [i \in 1..Len(submodels) |-> heap[submodels[i]].id]

\* Mutation of the id the composite hands to the base constructor: none.
MultiIdArgNone == NoId

\* The id MultiDynamicalModel.__init__ passes to the base constructor: -1
MultiIdArg == <<-1>>

\* MultiDynamicalModel(submodels) with the counter at `counter`: the new object
\* (obj, a sequence of one) and the counter afterwards, or the IndexError that
\* submodels[0].dt raises on an empty list before the base constructor runs.
MultiInit(heap, counter, submodels) ==
    IF submodels = <<>>
    THEN [err |-> "IndexError", obj |-> <<>>, counter |-> counter]
    ELSE LET x_dims == XDims(heap, submodels)
             u_dims == UDims(heap, submodels)
             base == BaseInit(counter, Sum(x_dims), Sum(u_dims), heap[submodels[1]].dt, MultiIdArg)
         IN  [err |-> "",
              obj |-> << [submodels |-> submodels, n_players |-> Len(submodels),
                          x_dims |-> x_dims, u_dims |-> u_dims,
                          ids |-> SubIds(heap, submodels),
                          n_x |-> base.n_x, n_u |-> base.n_u, dt |-> base.dt,
                          id |-> base.id] >>,
              counter |-> CounterAfter(counter, MultiIdArg)]

\* Mutation of the list comprehension of split: the selected submodels reversed.
SplitRosterReversed(heap, comp, nbrs) ==
    LET sel == SelectSeq(comp.submodels, LAMBDA r : heap[r].id \in nbrs)
    IN  [i \in 1..Len(sel) |-> sel[Len(sel) + 1 - i]]

\* [model for model in self.submodels if model.id in graph[problem]]
SplitRoster(heap, comp, nbrs) ==
    SelectSeq(comp.submodels, LAMBDA r : heap[r].id \in nbrs)

RECURSIVE SplitLoop(_, _, _, _, _, _)
\* The loop of split from entry k on, `acc` being split_dynamics so far.  An
\* exception leaves the loop and nothing is returned.
SplitLoop(heap, counter, comp, graph, k, acc) ==
    IF k > Len(graph)
    THEN [err |-> "", out |-> acc, counter |-> counter]
    ELSE LET r == MultiInit(heap, counter, SplitRoster(heap, comp, graph[k]))
         IN  IF r.err # ""
             THEN [err |-> r.err, out |-> <<>>, counter |-> r.counter]
             ELSE SplitLoop(heap, r.counter, comp, graph, k + 1, Append(acc, r.obj[1]))

\* MultiDynamicalModel.split(graph); graph is the sequence of the neighbor
\* sets graph[problem] in the order `for problem in graph` visits the keys.
SplitModel(heap, counter, comp, graph) == SplitLoop(heap, counter, comp, graph, 1, <<>>)

(***************************************************************************)
(* Numbers.  A real number is held in fixed point, as a whole number of    *)
(* 1/Scale: 1.0 is Scale, the timestep 0.1 is 10.  A product is rounded    *)
(* down to the resolution.  Vectors are sequences, matrices sequences of   *)
(* rows.                                                                   *)
(***************************************************************************)
Scale == 100

One == Scale

\* a * b
Mul(a, b) == (a * b) \div Scale

Abs(a) == IF a < 0 THEN 0 - a ELSE a

\* torch.cos, torch.sin and torch.tan at 0, 0.5 and 1 radian, rounded to 0.01
CosTable == [t \in {0, 50, 100} |-> CASE t = 0 -> 100 [] t = 50 -> 88 [] t = 100 -> 54]
SinTable == [t \in {0, 50, 100} |-> CASE t = 0 -> 0 [] t = 50 -> 48 [] t = 100 -> 84]
TanTable == [t \in {0, 50, 100} |-> CASE t = 0 -> 0 [] t = 50 -> 55 [] t = 100 -> 156]

Cos(t) == CosTable[Abs(t)]
Sin(t) == IF t < 0 THEN 0 - SinTable[Abs(t)] ELSE SinTable[t]
Tan(t) == IF t < 0 THEN 0 - TanTable[Abs(t)] ELSE TanTable[t]

RECURSIVE Concat(_)
\* torch.cat of a list of vectors
Concat(vs) == IF vs = <<>> THEN <<>> ELSE vs[1] \o Concat(Tail(vs))

\* The outcome of a call that returns the vector v, and of one that raises
Returns(v) == [err |-> "", val |-> v]
Raises(e) == [err |-> e, val |-> <<>>]

(***************************************************************************)
(* f of the concrete classes.  `*_, a, b = x` takes the last entries of x  *)
(* and raises ValueError when x has fewer; `a, b = u` raises ValueError    *)
(* unless u has exactly two.                                               *)
(***************************************************************************)
\* How many trailing entries of x the starred assignment of f names
Unpacked(cls) ==
    CASE cls = "DoubleIntDynamics4D" -> 2
      [] cls = "CarDynamics3D" -> 1
      [] cls = "UnicycleDynamics4D" -> 2
      [] cls = "BikeDynamics5D" -> 3

\* DoubleIntDynamics4D.f
DoubleIntF(x, u) ==
    LET n == Len(x)
    IN  <<x[n - 1], x[n], u[1], u[2]>>

\* CarDynamics3D.f
CarF(x, u) ==
    LET theta == x[Len(x)]
    IN  <<Mul(u[1], Cos(theta)), Mul(u[1], Sin(theta)), u[2]>>

\* UnicycleDynamics4D.f
UnicycleF(x, u) ==
    LET n == Len(x)
        v == x[n - 1]
        theta == x[n]
    IN  <<Mul(v, Cos(theta)), Mul(v, Sin(theta)), u[1], u[2]>>

\* BikeDynamics5D.f
BikeF(x, u) ==
    LET n == Len(x)
        v == x[n - 2]
        theta == x[n - 1]
        phi == x[n]
    IN  <<Mul(v, Cos(theta)), Mul(v, Sin(theta)), u[1], Tan(phi), u[2]>>

\* <class>.f(x, u)
LeafF(cls, x, u) ==
    IF Len(x) < Unpacked(cls) \/ Len(u) # 2
    THEN Raises("ValueError")
    ELSE Returns(CASE cls = "DoubleIntDynamics4D" -> DoubleIntF(x, u)
                   [] cls = "CarDynamics3D" -> CarF(x, u)
                   [] cls = "UnicycleDynamics4D" -> UnicycleF(x, u)
                   [] cls = "BikeDynamics5D" -> BikeF(x, u))

(***************************************************************************)
(* MultiDynamicalModel.partition and f                                     *)
(***************************************************************************)
\* Z[a:b], Python's slice
Slice(Z, a, b) ==
    LET lo == IF a < Len(Z) THEN a ELSE Len(Z)
        hi == IF b < Len(Z) THEN b ELSE Len(Z)
    IN  [j \in 1..(hi - lo) |-> Z[lo + j]]

\* decentralized.util.split_agents: Z cut into contiguous slices of the
\* lengths z_dims, in order
SplitAgents(Z, z_dims) ==
    [i \in 1..Len(z_dims) |->
        Slice(Z, Sum(SubSeq(z_dims, 1, i - 1)), Sum(SubSeq(z_dims, 1, i)))]

\* Mutation of partition: the state is cut by the control dimensions.
PartitionByUDims(comp, x, u) ==
    [xs |-> SplitAgents(x, comp.u_dims), us |-> SplitAgents(u, comp.u_dims)]

\* MultiDynamicalModel.partition(x, u)
Partition(comp, x, u) ==
    [xs |-> SplitAgents(x, comp.x_dims), us |-> SplitAgents(u, comp.u_dims)]

\* MultiDynamicalModel.f(x, u): each submodel's f on its own slices; the
\* first exception of a submodel ends the call.
MultiF(heap, comp, x, u) ==
    LET part == Partition(comp, x, u)
        sub == [i \in 1..Len(comp.submodels) |->
                   LeafF(heap[comp.submodels[i]].cls, part.xs[i], part.us[i])]
    IN  IF \E i \in 1..Len(sub) : sub[i].err # ""
        THEN Raises("ValueError")
        ELSE Returns(Concat([i \in 1..Len(sub) |-> sub[i].val]))

\* obj is a MultiDynamicalModel
IsMulti(obj) == "submodels" \in DOMAIN obj

\* obj.f(x, u)
F(heap, obj, x, u) ==
    IF IsMulti(obj) THEN MultiF(heap, obj, x, u) ELSE LeafF(obj.cls, x, u)

(***************************************************************************)
(* DynamicalModel.__call__ and linearize                                   *)
(***************************************************************************)
\* v * s for a vector v
VecScale(v, s) == [i \in 1..Len(v) |-> Mul(v[i], s)]

\* x + y for tensors of one dimension: entry by entry, a tensor of one entry
\* being broadcast; other sizes do not match
VecAdd(x, y) ==
    IF Len(x) = Len(y) THEN Returns([i \in 1..Len(x) |-> x[i] + y[i]])
    ELSE IF Len(x) = 1 THEN Returns([i \in 1..Len(y) |-> x[1] + y[i]])
    ELSE IF Len(y) = 1 THEN Returns([i \in 1..Len(x) |-> x[i] + y[1]])
    ELSE Raises("RuntimeError")

\* Mutation of the Euler step: the derivative is not scaled by dt.
CallUnscaled(heap, obj, x, u) ==
    LET d == F(heap, obj, x, u)
    IN  IF d.err # "" THEN d ELSE VecAdd(x, d.val)

\* obj(x, u): x + self.f(x, u) * self.dt
Call(heap, obj, x, u) ==
    LET d == F(heap, obj, x, u)
    IN  IF d.err # "" THEN d ELSE VecAdd(x, VecScale(d.val, obj.dt))

\* The matrix of r rows and c columns with the entries e(i, j)
Matrix(r, c, e(_, _)) == [i \in 1..r |-> [j \in 1..c |-> e(i, j)]]

\* The Jacobians of a concrete class's f at (x, u), x of n_x and u of n_u
\* entries, as torch.autograd.functional.jacobian differentiates f
LeafJacobian(cls, x, u) ==
    CASE cls = "DoubleIntDynamics4D" ->
           [A |-> Matrix(4, 4, LAMBDA i, j : IF j = i + 2 THEN One ELSE 0),
            B |-> Matrix(4, 2, LAMBDA i, j : IF i = j + 2 THEN One ELSE 0)]
      [] cls = "CarDynamics3D" ->
           [A |-> Matrix(3, 3, LAMBDA i, j :
                     IF i = 1 /\ j = 3 THEN 0 - Mul(u[1], Sin(x[3]))
                     ELSE IF i = 2 /\ j = 3 THEN Mul(u[1], Cos(x[3]))
                     ELSE 0),
            B |-> Matrix(3, 2, LAMBDA i, j :
                     IF i = 1 /\ j = 1 THEN Cos(x[3])
                     ELSE IF i = 2 /\ j = 1 THEN Sin(x[3])
                     ELSE IF i = 3 /\ j = 2 THEN One
                     ELSE 0)]
      [] cls = "UnicycleDynamics4D" ->
           [A |-> Matrix(4, 4, LAMBDA i, j :
                     IF i = 1 /\ j = 3 THEN Cos(x[4])
                     ELSE IF i = 1 /\ j = 4 THEN 0 - Mul(x[3], Sin(x[4]))
                     ELSE IF i = 2 /\ j = 3 THEN Sin(x[4])
                     ELSE IF i = 2 /\ j = 4 THEN Mul(x[3], Cos(x[4]))
                     ELSE 0),
            B |-> Matrix(4, 2, LAMBDA i, j : IF i = j + 2 THEN One ELSE 0)]
      [] cls = "BikeDynamics5D" ->
           [A |-> Matrix(5, 5, LAMBDA i, j :
                     IF i = 1 /\ j = 3 THEN Cos(x[4])
                     ELSE IF i = 1 /\ j = 4 THEN 0 - Mul(x[3], Sin(x[4]))
                     ELSE IF i = 2 /\ j = 3 THEN Sin(x[4])
                     ELSE IF i = 2 /\ j = 4 THEN Mul(x[3], Cos(x[4]))
                     ELSE IF i = 4 /\ j = 5 THEN One + Mul(Tan(x[5]), Tan(x[5]))
                     ELSE 0),
            B |-> Matrix(5, 2, LAMBDA i, j :
                     IF i = 3 /\ j = 1 THEN One
                     ELSE IF i = 5 /\ j = 2 THEN One
                     ELSE 0)]

\* The index of the slice that entry r of a joint vector falls in
BlockOf(dims, r) ==
    CHOOSE i \in 1..Len(dims) :
        Sum(SubSeq(dims, 1, i - 1)) < r /\ r <= Sum(SubSeq(dims, 1, i))

\* The entry (r, c) of the joint matrix with blocks[i] at the rows of slice i
\* of rdims and the columns of slice i of cdims, zero elsewhere
BlockEntry(blocks, rdims, cdims, r, c) ==
    LET i == BlockOf(rdims, r)
    IN  IF BlockOf(cdims, c) = i
        THEN blocks[i][r - Sum(SubSeq(rdims, 1, i - 1))][c - Sum(SubSeq(cdims, 1, i - 1))]
        ELSE 0

\* The Jacobians of the composite's f: the derivative of each submodel's
\* output with respect to its own slices, none with respect to the others'
MultiJacobian(heap, comp, x, u) ==
    LET part == Partition(comp, x, u)
        sub == [i \in 1..Len(comp.submodels) |->
                   LeafJacobian(heap[comp.submodels[i]].cls, part.xs[i], part.us[i])]
    IN  [A |-> Matrix(comp.n_x, comp.n_x, LAMBDA r, c :
                  BlockEntry([i \in 1..Len(sub) |-> sub[i].A], comp.x_dims, comp.x_dims, r, c)),
         B |-> Matrix(comp.n_x, comp.n_u, LAMBDA r, c :
                  BlockEntry([i \in 1..Len(sub) |-> sub[i].B], comp.x_dims, comp.u_dims, r, c))]

\* torch.autograd.functional.jacobian(self.f, (x, u))
Jacobian(heap, obj, x, u) ==
    IF IsMulti(obj) THEN MultiJacobian(heap, obj, x, u) ELSE LeafJacobian(obj.cls, x, u)

\* The entry (i, j) of self.NX_EYE = np.eye(self.n_x)
Eye(i, j) == IF i = j THEN One ELSE 0

\* Mutation of the discretization: the identity is not added.
DiscretizeNoEye(obj, jac) ==
    [A |-> Matrix(obj.n_x, obj.n_x, LAMBDA i, j : Mul(obj.dt, jac.A[i][j])),
     B |-> Matrix(obj.n_x, obj.n_u, LAMBDA i, j : Mul(obj.dt, jac.B[i][j]))]

\* A = self.dt * A.reshape(n_x, n_x) + self.NX_EYE; B = self.dt * B.reshape(n_x, n_u)
Discretize(obj, jac) ==
    [A |-> Matrix(obj.n_x, obj.n_x, LAMBDA i, j : Mul(obj.dt, jac.A[i][j]) + Eye(i, j)),
     B |-> Matrix(obj.n_x, obj.n_u, LAMBDA i, j : Mul(obj.dt, jac.B[i][j]))]

\* obj.linearize(x, u, discrete)
Linearize(heap, obj, x, u, discrete) ==
    LET jac == Jacobian(heap, obj, x, u)
    IN  IF discrete THEN jac ELSE Discretize(obj, jac)

(***************************************************************************)
(* Inputs                                                                  *)
(***************************************************************************)
\* The ids of the submodels of comp
IdSet(comp) == {comp.ids[i] : i \in 1..Len(comp.ids)}

\* The positions in comp's roster of the submodels whose id is in nbrs
Selected(comp, nbrs) == {i \in 1..Len(comp.ids) : comp.ids[i] \in nbrs}

\* The j-th smallest element of a set of positions
Nth(pos, j) == CHOOSE p \in pos : Cardinality({q \in pos : q <= p}) = j

\* Ids a graph handed to comp.split may name: those of its submodels and one
\* id that none of them has.
AgentIds(comp) ==
    IdSet(comp) \cup {1 + CHOOSE m \in IdSet(comp) : \A i \in IdSet(comp) : i <= m}

\* The graphs passed to comp.split: up to MaxGraph entries
Graphs(comp) == UNION {[1..l -> SUBSET AgentIds(comp)] : l \in 0..MaxGraph}

\* The graphs of a solver run over comp, one entry per agent: every agent
\* alone, or every agent with all the others.
SolverGraphs(comp) ==
    { [k \in 1..Len(comp.ids) |-> {comp.ids[k]}],
      [k \in 1..Len(comp.ids) |-> {comp.ids[j] : j \in 1..Len(comp.ids)}] }

\* The rosters passed to MultiDynamicalModel: lists of distinct constructed models
Rosters(n) ==
    {s \in UNION {[1..l -> 1..n] : l \in 0..n} :
        \A i, j \in 1..Len(s) : i # j => s[i] # s[j]}

\* The rosters that list models in the order they were constructed
OrderedRosters(n) ==
    {s \in UNION {[1..l -> 1..n] : l \in 0..n} :
        \A i, j \in 1..Len(s) : i < j => s[i] < s[j]}

\* The timestep of the scenario example, 0.1 s
ScenarioDt == {10}

\* The entries of the state and control vectors: -1, -0.5, 0, 0.5 and 1
Ramp(n, c) == [i \in 1..n |-> ((i + c) % 5) * (One \div 2) - One]

\* The vector of n entries that is 1 at p and 0 elsewhere
OneHot(n, p) == [i \in 1..n |-> IF i = p THEN One ELSE 0]

\* The state vectors of n entries handed to the models
States(n) == {OneHot(n, p) : p \in 0..n} \cup {Ramp(n, 1)}

\* The control vectors of n entries handed to the models
Controls(n) == {OneHot(n, 0), Ramp(n, 0)}

\* State and control vectors of n entries and of one entry less or more
StatesAbout(n) == States(n - 1) \cup States(n) \cup States(n + 1)
ControlsAbout(n) == Controls(n - 1) \cup Controls(n) \cup Controls(n + 1)

\* The class lists of a scenario: up to MaxModels agents
ClassLists == UNION {[1..l -> Classes] : l \in 1..MaxModels}

(***************************************************************************)
(* Operations.  The caller makes one call at a time: an operation leaves   *)
(* its outcome in ret, and the caller drops it (Forget) before the next.   *)
(***************************************************************************)
RetNone ==
    [op |-> "", cls |-> "", dt |-> 0, idarg |-> NoId, ref |-> 0,
     roster |-> <<>>, graph |-> <<>>, out |-> <<>>, err |-> "",
     target |-> 0, x |-> <<>>, u |-> <<>>, discrete |-> FALSE, val |-> <<>>,
     A |-> <<>>, B |-> <<>>, xs |-> <<>>, us |-> <<>>, k |-> 0, sub |-> <<>>]

Init ==
    /\ nextId = 0
    /\ models = <<>>
    /\ multi = <<>>
    /\ sinceReset = <<>>
    /\ wasReset = FALSE
    /\ ret = RetNone

\* m = cls(dt) or m = cls(dt, id)
Construct(cls, dt, idarg) ==
    /\ ret = RetNone
    /\ Len(models) < MaxModels
    /\ models' = Append(models, NewLeaf(nextId, cls, dt, idarg))
    /\ nextId' = CounterAfter(nextId, ForwardedId(cls, idarg))
    /\ sinceReset' = Append(sinceReset, [ref |-> Len(models) + 1, supplied |-> idarg # NoId])
    /\ ret' = [RetNone EXCEPT !.op = "new", !.cls = cls, !.dt = dt, !.idarg = idarg,
                              !.ref = Len(models) + 1]
    /\ UNCHANGED <<multi, wasReset>>

\* DynamicalModel._reset_ids()
ResetIds ==
    /\ ret = RetNone
    /\ nextId' = 0
    /\ sinceReset' = <<>>
    /\ wasReset' = TRUE
    /\ ret' = [RetNone EXCEPT !.op = "_reset_ids"]
    /\ UNCHANGED <<models, multi>>

\* multi = MultiDynamicalModel(roster)
ConstructMulti(roster) ==
    /\ ret = RetNone
    /\ LET r == MultiInit(models, nextId, roster)
       IN  /\ multi' = IF r.err = "" THEN r.obj ELSE multi
           /\ nextId' = r.counter
           /\ ret' = [RetNone EXCEPT !.op = "MultiDynamicalModel", !.roster = roster,
                                     !.out = r.obj, !.err = r.err]
    /\ UNCHANGED <<models, sinceReset, wasReset>>

\* multi.split(graph)
Split(graph) ==
    /\ ret = RetNone
    /\ multi # <<>>
    /\ LET r == SplitModel(models, nextId, multi[1], graph)
       IN  /\ nextId' = r.counter
           /\ ret' = [RetNone EXCEPT !.op = "split", !.graph = graph,
                                     !.out = r.out, !.err = r.err]
    /\ UNCHANGED <<models, multi, sinceReset, wasReset>>

\* The caller is done with the last outcome.
Forget ==
    /\ ret # RetNone
    /\ ret' = RetNone
    /\ UNCHANGED <<nextId, models, multi, sinceReset, wasReset>>

(***************************************************************************)
(* Spec: scenario set-up.  Models of every class are constructed with and  *)
(* without ids, the counter is reset, composites are built and split the   *)
(* way a solver run splits them.                                           *)
(***************************************************************************)
Next ==
    \/ \E cls \in Classes, dt \in ScenarioDt, idarg \in IdArgs : Construct(cls, dt, idarg)
    \/ ResetIds
    \/ \E roster \in Rosters(Len(models)) : ConstructMulti(roster)
    \/ ret = RetNone /\ multi # <<>> /\ \E graph \in SolverGraphs(multi[1]) : Split(graph)
    \/ Forget

Spec == Init /\ [][Next]_vars

(***************************************************************************)
(* SpecSplit: composites of point masses and cars split along every graph. *)
(***************************************************************************)
SplitClasses == {"DoubleIntDynamics4D", "CarDynamics3D"}
SplitIdArgs == {NoId, <<1>>}

NextSplit ==
    \/ \E cls \in SplitClasses, dt \in DtValues, idarg \in SplitIdArgs : Construct(cls, dt, idarg)
    \/ \E roster \in OrderedRosters(Len(models)) : ConstructMulti(roster)
    \/ ret = RetNone /\ multi # <<>> /\ \E graph \in Graphs(multi[1]) : Split(graph)
    \/ Forget

SpecSplit == Init /\ [][NextSplit]_vars

(***************************************************************************)
(* SpecDyn: a scenario's agents, all with one timestep and constructed     *)
(* without ids, and the composite of them all; then f, the Euler step,     *)
(* linearize and partition are called on state and control vectors.        *)
(* Target i is the i-th agent, the target after the last the composite.    *)
(***************************************************************************)
\* The agents of a scenario, constructed in order from a counter at 0
Scenario(kinds) ==
    [i \in 1..Len(kinds) |-> NewLeaf(i - 1, kinds[i].cls, kinds[i].dt, NoId)]

InitScenario(kinds) ==
    /\ models = Scenario(kinds)
    /\ nextId = Len(kinds)
    /\ multi = MultiInit(Scenario(kinds), Len(kinds), [i \in 1..Len(kinds) |-> i]).obj
    /\ sinceReset = [i \in 1..Len(kinds) |-> [ref |-> i, supplied |-> FALSE]]
    /\ wasReset = FALSE
    /\ ret = RetNone

InitDyn ==
    \E dt \in DtValues, classes \in ClassLists :
        InitScenario([i \in 1..Len(classes) |-> [cls |-> classes[i], dt |-> dt]])

\* The model a target names
Obj(t) == IF t > Len(models) THEN multi[1] ELSE models[t]

Targets == 1..(Len(models) + 1)

\* Obj(t).f(x, u)
EvalF(t, x, u) ==
    /\ ret = RetNone
    /\ LET r == F(models, Obj(t), x, u)
       IN  ret' = [RetNone EXCEPT !.op = "f", !.target = t, !.x = x, !.u = u,
                                  !.val = r.val, !.err = r.err]
    /\ UNCHANGED <<nextId, models, multi, sinceReset, wasReset>>

\* Obj(t)(x, u)
Step(t, x, u) ==
    /\ ret = RetNone
    /\ LET r == Call(models, Obj(t), x, u)
       IN  ret' = [RetNone EXCEPT !.op = "call", !.target = t, !.x = x, !.u = u,
                                  !.val = r.val, !.err = r.err]
    /\ UNCHANGED <<nextId, models, multi, sinceReset, wasReset>>

\* Obj(t).linearize(x, u, discrete)
LinearizeAt(t, x, u, discrete) ==
    /\ ret = RetNone
    /\ LET r == Linearize(models, Obj(t), x, u, discrete)
       IN  ret' = [RetNone EXCEPT !.op = "linearize", !.target = t, !.x = x, !.u = u,
                                  !.discrete = discrete, !.A = r.A, !.B = r.B]
    /\ UNCHANGED <<nextId, models, multi, sinceReset, wasReset>>

\* multi.partition(x, u)
PartitionAt(x, u) ==
    /\ ret = RetNone
    /\ LET r == Partition(multi[1], x, u)
       IN  ret' = [RetNone EXCEPT !.op = "partition", !.x = x, !.u = u,
                                  !.xs = r.xs, !.us = r.us]
    /\ UNCHANGED <<nextId, models, multi, sinceReset, wasReset>>

NextDyn ==
    \/ ret = RetNone /\ \E t \in Targets :
          \E x \in StatesAbout(Obj(t).n_x), u \in ControlsAbout(Obj(t).n_u) : EvalF(t, x, u)
    \/ ret = RetNone /\ \E t \in Targets :
          \E x \in States(Obj(t).n_x), u \in Controls(Obj(t).n_u) : Step(t, x, u)
    \/ ret = RetNone /\ \E t \in Targets, discrete \in BOOLEAN :
          \E x \in States(Obj(t).n_x), u \in Controls(Obj(t).n_u) : LinearizeAt(t, x, u, discrete)
    \/ ret = RetNone /\
          \E x \in States(multi[1].n_x), u \in Controls(multi[1].n_u) : PartitionAt(x, u)
    \/ Forget

SpecDyn == InitDyn /\ [][NextDyn]_vars

(***************************************************************************)
(* SpecSplitStep: agents of any class and timestep; the composite of them  *)
(* all is split along a graph, and both it and the k-th composite returned *)
(* are stepped, the latter on the slices of its own agents.                *)
(***************************************************************************)
Kinds == [cls : Classes, dt : DtValues]

InitMixed ==
    \E kinds \in UNION {[1..l -> Kinds] : l \in 1..MaxModels} : InitScenario(kinds)

\* The entries of the joint vector z that belong to the submodels of comp
\* whose id is in nbrs, in comp's order
Restrict(comp, dims, nbrs, z) ==
    LET pos == Selected(comp, nbrs)
        parts == SplitAgents(z, dims)
    IN  Concat([j \in 1..Cardinality(pos) |-> parts[Nth(pos, j)]])

\* parts = multi.split(graph); full = multi(x, u); sub = parts[k](x_k, u_k)
SplitStep(graph, k, x, u) ==
    /\ ret = RetNone
    /\ LET r == SplitModel(models, nextId, multi[1], graph)
           full == Call(models, multi[1], x, u)
           sub == IF r.err # "" THEN Raises(r.err)
                  ELSE Call(models, r.out[k],
                            Restrict(multi[1], multi[1].x_dims, graph[k], x),
                            Restrict(multi[1], multi[1].u_dims, graph[k], u))
       IN  /\ nextId' = r.counter
           /\ ret' = [RetNone EXCEPT !.op = "split_step", !.graph = graph, !.k = k,
                                     !.x = x, !.u = u, !.out = r.out, !.val = full.val,
                                     !.sub = sub.val,
                                     !.err = IF full.err # "" THEN full.err ELSE sub.err]
    /\ UNCHANGED <<models, multi, sinceReset, wasReset>>

NextSplitStep ==
    \/ ret = RetNone /\ \E graph \in Graphs(multi[1]) : \E k \in 1..Len(graph) :
          \E x \in States(multi[1].n_x), u \in Controls(multi[1].n_u) : SplitStep(graph, k, x, u)
    \/ Forget

SpecSplitStep == InitMixed /\ [][NextSplitStep]_vars

(***************************************************************************)
(* Properties of construction, reset and split                             *)
(***************************************************************************)
\* The composites that exist: the caller's and those the last call returned
Composites == {multi[i] : i \in 1..Len(multi)} \cup {ret.out[k] : k \in 1..Len(ret.out)}

\* The last call was multi.split(graph) and every neighbor set names only ids
\* of multi's submodels
SplitOfKnownIds ==
    /\ ret.op = "split"
    /\ \A k \in 1..Len(ret.graph) : ret.graph[k] \subseteq IdSet(multi[1])

\* c's roster is made of exactly the submodels of comp whose id is in nbrs,
\* the very same objects, in the order comp lists them
RosterIsSelection(c, comp, nbrs) ==
    /\ Len(c.submodels) = Cardinality(Selected(comp, nbrs))
    /\ \A j \in 1..Len(c.submodels) :
          c.submodels[j] = comp.submodels[Nth(Selected(comp, nbrs), j)]

\* C1: the models constructed without an explicit id since the counter was
\* last reset have strictly increasing (so pairwise distinct) ids in
\* construction order, whatever composite constructions and split calls come
\* in between; and when a reset has happened and the first model constructed
\* after it was given no id, that model has id 0.
C1_AutoIdsIncrease ==
    /\ \A i, j \in 1..Len(sinceReset) :
          (i < j /\ ~sinceReset[i].supplied /\ ~sinceReset[j].supplied)
             => models[sinceReset[i].ref].id < models[sinceReset[j].ref].id
    /\ (wasReset /\ sinceReset # <<>> /\ ~sinceReset[1].supplied)
          => models[sinceReset[1].ref].id = 0

\* Two models constructed without ids after a reset, a composite built and
\* split since: the second model has id 1.
C1_Witness ==
    /\ wasReset
    /\ Len(sinceReset) = 2
    /\ ~sinceReset[1].supplied /\ ~sinceReset[2].supplied
    /\ models[sinceReset[1].ref].id = 0
    /\ models[sinceReset[2].ref].id = 1
    /\ ret.op = "split" /\ Len(ret.out) = 2

\* C2: a construction that is handed an id gives the model that id and leaves
\* the counter as it was, for every class and every id, 0 included.
C2_ExplicitIdKept ==
    [][(ret'.op = "new" /\ ret'.idarg # NoId)
          => (models'[ret'.ref].id = ret'.idarg[1] /\ nextId' = nextId)]_vars

\* C3 as stated: for a graph that names only ids of the composite's
\* submodels, split returns one composite per entry, in entry order, whose
\* roster is exactly the submodels with an id in the entry's neighbor set,
\* one submodel per id of the set, in the composite's own order.
C3_SplitExactlyOnePerId ==
    SplitOfKnownIds =>
        /\ ret.err = ""
        /\ Len(ret.out) = Len(ret.graph)
        /\ \A k \in 1..Len(ret.out) :
              /\ RosterIsSelection(ret.out[k], multi[1], ret.graph[k])
              /\ IdSet(ret.out[k]) = ret.graph[k]
              /\ Len(ret.out[k].submodels) = Cardinality(ret.graph[k])

\* C3 amended: for a graph that names only ids of the composite's submodels,
\* if some neighbor set is empty split raises IndexError and returns nothing;
\* otherwise it returns one composite per entry, in entry order, whose roster
\* is exactly the submodels with an id in the entry's neighbor set (every
\* submodel that bears such an id), in the composite's own order, and that is
\* one submodel per id when the composite's submodel ids are pairwise distinct.
C3_SplitSelects ==
    SplitOfKnownIds =>
        IF \E k \in 1..Len(ret.graph) : ret.graph[k] = {}
        THEN ret.err = "IndexError" /\ ret.out = <<>>
        ELSE /\ ret.err = ""
             /\ Len(ret.out) = Len(ret.graph)
             /\ \A k \in 1..Len(ret.out) :
                   /\ RosterIsSelection(ret.out[k], multi[1], ret.graph[k])
                   /\ IdSet(ret.out[k]) = ret.graph[k]
                   /\ (Cardinality(IdSet(multi[1])) = Len(multi[1].ids)
                          => Len(ret.out[k].submodels) = Cardinality(ret.graph[k]))

\* A composite whose ids are listed as 1, 0 is split along two different
\* entries, the first naming both agents: the first composite returned lists
\* them as 1, 0 again.
C3_Witness ==
    /\ SplitOfKnownIds
    /\ multi[1].ids = <<1, 0>>
    /\ Len(ret.graph) = 2
    /\ ret.graph[1] = {0, 1} /\ ret.graph[2] = {0}
    /\ ret.err = ""
    /\ ret.out[1].ids = <<1, 0>> /\ ret.out[2].ids = <<0>>

\* C4: a split along a graph that names an id none of the composite's
\* submodels has ends in an error, never in a returned list.
C4_UnknownIdReported ==
    (ret.op = "split" /\ \E k \in 1..Len(ret.graph) : ~(ret.graph[k] \subseteq IdSet(multi[1])))
        => ret.err # ""

\* C6: in every composite that exists, every submodel has the composite's dt.
C6_SharedTimestep ==
    \A c \in Composites : \A i \in 1..Len(c.submodels) : models[c.submodels[i]].dt = c.dt

\* C10: constructing a composite or splitting one leaves every leaf model,
\* the id counter and (for split) the composite that is split as they were;
\* every composite made has id -1, and the composites split returns hold
\* submodels of the original, the same objects with the same ids.
C10_Frame ==
    [][ret'.op \in {"MultiDynamicalModel", "split"} =>
          /\ models' = models
          /\ nextId' = nextId
          /\ (ret'.op = "split" => multi' = multi)
          /\ \A k \in 1..Len(ret'.out) :
                /\ ret'.out[k].id = -1
                /\ \A i \in 1..Len(ret'.out[k].submodels) :
                      /\ ret'.out[k].ids[i] = models[ret'.out[k].submodels[i]].id
                      /\ ret'.out[k].x_dims[i] = models[ret'.out[k].submodels[i]].n_x
                      /\ ret'.out[k].u_dims[i] = models[ret'.out[k].submodels[i]].n_u
                      /\ (ret'.op = "split" =>
                             \E j \in 1..Len(multi[1].submodels) :
                                 ret'.out[k].submodels[i] = multi[1].submodels[j])
       ]_vars

\* C5: f called with a state of a length other than n_x or a control of a
\* length other than n_u raises, on a leaf model and on a composite.
C5_DimensionMismatchRaises ==
    (ret.op = "f" /\ (Len(ret.x) # Obj(ret.target).n_x \/ Len(ret.u) # Obj(ret.target).n_u))
        => ret.err # ""

\* C7: partition of a joint state of n_x entries and a joint control of n_u
\* entries returns one state slice and one control slice per submodel, the
\* i-th of x_dims[i] and u_dims[i] entries, and the slices concatenated in
\* order are the joint state and the joint control.
C7_PartitionRoundTrip ==
    ret.op = "partition" =>
        /\ Len(ret.x) = multi[1].n_x /\ Len(ret.u) = multi[1].n_u
        /\ Len(ret.xs) = Len(multi[1].submodels)
        /\ Len(ret.us) = Len(multi[1].submodels)
        /\ \A i \in 1..Len(multi[1].submodels) :
              /\ Len(ret.xs[i]) = multi[1].x_dims[i]
              /\ Len(ret.us[i]) = multi[1].u_dims[i]
        /\ Concat(ret.xs) = ret.x
        /\ Concat(ret.us) = ret.u

\* The joint state 0, 0.5, 1, -1, -0.5, 0, 0.5 of a point mass and a car has
\* been partitioned.
C7_Witness ==
    /\ ret.op = "partition"
    /\ multi[1].x_dims = <<4, 3>>
    /\ ret.x = <<0, 50, 100, -100, -50, 0, 50>>
    /\ ret.xs = << <<0, 50, 100, -100>>, <<-50, 0, 50>> >>
    /\ ret.us = << <<-50, 0>>, <<50, 100>> >>

\* C8: the k-th composite that split returns, stepped on the slices of its
\* own agents, gives the slices of those agents in the step of the full
\* composite.
C8_SplitStepAgrees ==
    (ret.op = "split_step" /\ ret.err = "")
        => ret.sub = Restrict(multi[1], multi[1].x_dims, ret.graph[ret.k], ret.val)

\* C9: a step is x + f(x, u) * dt entry by entry; linearize with discrete
\* false returns dt * A_c + I and dt * B_c for the Jacobians (A_c, B_c) the
\* same call returns with discrete true; and the point mass with dt 0.1 at
\* state 0, 0, 1, 0 and control 0, 0 steps to 0.1, 0, 1, 0, with A_c 1 at
\* (row 0, column 2) and (row 1, column 3) and 0 elsewhere.
C9_EulerConsistency ==
    LET obj == Obj(ret.target)
        d == F(models, obj, ret.x, ret.u)
        c == Linearize(models, obj, ret.x, ret.u, TRUE)
        scenario == /\ ~IsMulti(obj) /\ obj.cls = "DoubleIntDynamics4D" /\ obj.dt = 10
                    /\ ret.x = <<0, 0, 100, 0>> /\ ret.u = <<0, 0>>
    IN  /\ ret.op = "call" =>
              /\ ret.err = "" /\ d.err = ""
              /\ Len(ret.val) = obj.n_x
              /\ \A i \in 1..obj.n_x : ret.val[i] = ret.x[i] + Mul(d.val[i], obj.dt)
              /\ (scenario => ret.val = <<10, 0, 100, 0>>)
        /\ (ret.op = "linearize" /\ ~ret.discrete) =>
              /\ Len(ret.A) = obj.n_x /\ Len(ret.B) = obj.n_x
              /\ \A i \in 1..obj.n_x :
                    /\ Len(ret.A[i]) = obj.n_x /\ Len(ret.B[i]) = obj.n_u
                    /\ \A j \in 1..obj.n_x :
                          ret.A[i][j] = Mul(obj.dt, c.A[i][j]) + (IF i = j THEN One ELSE 0)
                    /\ \A j \in 1..obj.n_u : ret.B[i][j] = Mul(obj.dt, c.B[i][j])
              /\ (scenario => ret.A = << <<100, 0, 10, 0>>, <<0, 100, 0, 10>>,
                                         <<0, 0, 100, 0>>, <<0, 0, 0, 100>> >>)
        /\ (ret.op = "linearize" /\ ret.discrete /\ scenario) =>
              ret.A = << <<0, 0, 100, 0>>, <<0, 0, 0, 100>>, <<0, 0, 0, 0>>, <<0, 0, 0, 0>> >>

\* The point mass of the scenario has been stepped from 0, 0, 1, 0.
C9_Witness ==
    /\ ret.op = "call"
    /\ ret.target <= Len(models)
    /\ Obj(ret.target).cls = "DoubleIntDynamics4D" /\ Obj(ret.target).dt = 10
    /\ ret.x = <<0, 0, 100, 0>> /\ ret.u = <<0, 0>>
    /\ ret.val = <<10, 0, 100, 0>>

\* A two-agent composite has been split into two composites.
C10_Witness ==
    /\ ret.op = "split" /\ ret.err = ""
    /\ Len(multi[1].submodels) = 2
    /\ Len(ret.out) = 2
    /\ Len(ret.out[1].submodels) = 2
    /\ nextId = 2

====
